---- MODULE Spec2Model ----
(***************************************************************************)
(* Model of src/main.rs (vban-rust): one process that runs either the      *)
(* `transmitter` (capture callback -> mpsc channel -> sender thread ->     *)
(* UDP socket) or the `receiver` (UDP socket -> receiver thread -> mpsc    *)
(* channel -> playback callback).                                          *)
(*                                                                         *)
(* An f32 sample is kept as its 32-bit pattern, split in two 16-bit halves *)
(* [hi, lo] (pattern = hi * 2^16 + lo), so that the byte conversions are   *)
(* real arithmetic on numbers below 2^31.                                  *)
(***************************************************************************)
EXTENDS Integers, Sequences, FiniteSets, TLC

\* ---------------------------------------------------------------- bounds
MaxFrames == 2        \* frames per captured buffer: 0..MaxFrames
MaxChannels == 3      \* device channel counts: 1..MaxChannels
MaxCaptures == 2      \* capture callbacks per run
MaxSamples == 2       \* whole samples in an arriving datagram: 0..MaxSamples
MaxDatagrams == 2     \* datagrams received per run
MaxOut == 3           \* length of the playback output buffer: 0..MaxOut

\* ------------------------------------------------------- program constants
RecvBufLen == 4096    \* let mut buffer = [0u8; 4096]
SampleBytes == 4      \* chunks_exact(4) / size of f32

\* ------------------------------------------------------------- samples
F32(h, l) == [hi |-> h, lo |-> l]
Zero == F32(0, 0)              \* 0.0f32  = 0x00000000
Half == F32(16128, 0)          \* 0.5f32  = 0x3F000000
Tenth == F32(15820, 52429)     \* 0.1f32  = 0x3DCCCCCD
\* sample runs used as inputs: a constant run, and a run whose samples all
\* differ (Tenth, then one unit in the last place more at each position)
HalfRun(n) == [i \in 1..n |-> Half]
Ramp(n) == [i \in 1..n |-> F32(15820, 52428 + i)]
\* stale contents of an output buffer: a distinct non-zero pattern per position
\* (NaN patterns 0x7FC0000i, and -1.0 with i added to its bit pattern)
Garbage(k, i) == IF k = 1 THEN F32(32704, i) ELSE F32(49024, i)

Min(a, b) == IF a < b THEN a ELSE b

\* f32::to_be_bytes: most significant byte first
to_be_bytes(s) ==
    << s.hi \div 256, s.hi % 256, s.lo \div 256, s.lo % 256 >>

\* f32::to_le_bytes: least significant byte first
to_le_bytes(s) ==
    << s.lo % 256, s.lo \div 256, s.hi % 256, s.hi \div 256 >>

\* f32::from_le_bytes([b[0], b[1], b[2], b[3]])
from_le_bytes(b) ==
    F32(b[3] + 256 * b[4], b[1] + 256 * b[2])

\* slice.chunks(n) with the last, shorter group filled up with 0
chunks_padded(s, n) ==
    [i \in 1..((Len(s) + n - 1) \div n) |->
        [k \in 1..n |-> IF n * (i - 1) + k <= Len(s)
                         THEN s[n * (i - 1) + k] ELSE 0]]

\* slice.chunks_exact(n): the complete n-byte groups, the remainder left out
chunks_exact(s, n) ==
    [i \in 1..(Len(s) \div n) |-> [k \in 1..n |-> s[n * (i - 1) + k]]]

\* an encoder that walks the buffer from its last sample to its first
EncodeReversed(buf) ==
    [j \in 1..(SampleBytes * Len(buf)) |->
        to_le_bytes(buf[Len(buf) - ((j - 1) \div SampleBytes)])[((j - 1) % SampleBytes) + 1]]

\* sender thread: buffer.iter().flat_map(|s| s.to_le_bytes()).collect()
Encode(buf) ==
    [j \in 1..(SampleBytes * Len(buf)) |->
        to_le_bytes(buf[((j - 1) \div SampleBytes) + 1])[((j - 1) % SampleBytes) + 1]]

\* receiver thread: bytes.chunks_exact(4).map(from_le_bytes).collect()
Decode(bytes) ==
    LET chunks == chunks_exact(bytes, SampleBytes)
    IN  [i \in DOMAIN chunks |-> from_le_bytes(chunks[i])]

\* a mono branch that pushes each sample once
mono_data(data) == data

\* capture callback, mono branch: each sample pushed twice
stereo_data(data) ==
    [j \in 1..(2 * Len(data)) |-> data[(j + 1) \div 2]]

\* capture callback body: the buffer handed to tx.send
Normalize(ch, data) ==
    IF ch = 1 THEN stereo_data(data) ELSE data

\* a callback that leaves the output buffer alone when nothing was polled
FillKeep(data, polled) ==
    [i \in 1..Len(data) |->
        IF polled # << >> /\ i <= Len(polled[1]) THEN polled[1][i] ELSE data[i]]

\* a callback that silences the positions the polled buffer does not reach
FillZeroTail(data, polled) ==
    [i \in 1..Len(data) |->
        IF polled # << >> /\ i <= Len(polled[1]) THEN polled[1][i] ELSE Zero]

\* playback callback body: the output buffer after the callback, given the
\* result of rx.try_recv() (<<>> for Err, <<samples>> for Ok(samples))
Fill(data, polled) ==
    IF polled # << >>
    THEN [i \in 1..Len(data) |->
            IF i <= Len(polled[1]) THEN polled[1][i] ELSE data[i]]
    ELSE [i \in 1..Len(data) |-> Zero]

\* a send that waits for room in a channel of capacity 1
SendReturnsWhenRoom(q) == Len(q) < 1

\* mpsc::Sender::send on an unbounded channel returns at once, whatever is
\* queued and whatever the receiving thread is doing
SendReturns(q) == TRUE

\* a channel of capacity 1 whose send gives up when it is full
ChanSendBounded(q, m) == IF Len(q) >= 1 THEN q ELSE Append(q, m)

\* mpsc channel: send appends, recv / try_recv take the oldest message
ChanSend(q, m) == Append(q, m)
ChanBack(q) == q[Len(q)]
ChanFront(q) == Head(q)
ChanDrained(q) == << >>
ChanRest(q) == Tail(q)

\* a poll that hands out the newest message
TryRecvNewest(q) == IF q # << >> THEN << q[Len(q)] >> ELSE << >>

\* rx.try_recv(): Ok(oldest) if a message is queued, Err otherwise
TryRecv(q) == IF q # << >> THEN << ChanFront(q) >> ELSE << >>

\* a receive that stores the whole datagram, however long
RecvAmtUncapped(n) == n

\* a reception buffer sized in samples instead of bytes
RecvAmtSamples(n) == Min(n, RecvBufLen \div SampleBytes)

\* socket.recv_from(&mut buffer): bytes stored for a datagram of length n
RecvAmt(n) == Min(n, RecvBufLen)

\* ------------------------------------------------------------- inputs
ChannelCounts == 1..MaxChannels

\* cpal delivers interleaved buffers: frames * channels samples
CaptureBuffers(ch) ==
    { HalfRun(f * ch) : f \in 0..MaxFrames } \cup
    { Ramp(f * ch) : f \in 0..MaxFrames }

\* datagrams on the socket. Short traffic: the wire image of every buffer of
\* up to MaxSamples samples, and for every number of whole samples a cut of
\* a longer one that ends 1, 2 or 3 bytes into the next sample. Long
\* traffic: a datagram two bytes longer than the reception buffer, and a
\* short one.
WireBuffers ==
    { HalfRun(k) : k \in 0..MaxSamples } \cup { Ramp(k) : k \in 0..MaxSamples }
Truncated ==
    { SubSeq(Encode(Ramp(MaxSamples + 1)), 1, SampleBytes * k + 1 + (k % 3)) :
        k \in 0..MaxSamples }
ShortDatagrams == { Encode(b) : b \in WireBuffers } \cup Truncated
Oversized == [i \in 1..(RecvBufLen + 2) |-> (7 * i + 3) % 256]
LongDatagrams == { Oversized, Encode(Ramp(2)) }
Datagrams(kind) == IF kind = "long" THEN LongDatagrams ELSE ShortDatagrams

OutputBuffers ==
    { [i \in 1..n |-> Garbage(k, i)] : n \in 0..MaxOut, k \in 1..2 }

\* ------------------------------------------------------------- state
VARIABLES
    command,            \* Commands::Transmitter or Commands::Receiver
    traffic,            \* environment: the datagrams that arrive, "short" or "long"
    main_pc,            \* position of the main thread in transmitter/receiver
    exit_cause,         \* the setup step whose failure ended the process
    nb_channels,        \* config.channels()
    stream_built,       \* build_input_stream / build_output_stream returned Ok
    transmitter_chan,   \* (tx, rx) of transmitter: queued buffers
    sender_pc,          \* sender thread: "unspawned", "recv", "send"
    sender_buffer,      \* buffer held by the sender thread between recv and send
    captured,           \* history: data of every capture callback
    enqueued,           \* history: buffers sent on transmitter_chan
    dequeued,           \* history: buffers received by the sender thread
    send_calls,         \* history: socket.send calls [packet, ok]
    queued_at_spawn,    \* history: buffers queued when the sender thread started
    receiver_chan,      \* (tx, rx) of receiver: queued buffers
    rx_alive,           \* the receiving end of receiver's channel exists
    receiver_pc,        \* receiver thread: "unspawned", "loop"
    buffer,             \* reception buffer [0u8; 4096], kept up to the highest
                        \* index written so far (the rest still holds 0)
    pushed,             \* history: buffers sent on receiver_chan
    polled,             \* history: buffers taken by the playback callback
    playback_ran,       \* history: the playback callback has run
    last                \* history: input and result of the receiver-side step
                        \* that ran last (recv_from iteration or playback
                        \* callback); after_err: a receive that directly
                        \* followed a failed one

tvars == << nb_channels, transmitter_chan, sender_pc, sender_buffer,
            captured, enqueued, dequeued, send_calls, queued_at_spawn >>
rvars == << receiver_chan, rx_alive, receiver_pc, buffer, pushed, polled,
            playback_ran, last >>
mvars == << command, traffic, main_pc, exit_cause, stream_built >>
vars == << mvars, tvars, rvars >>

NoStep == [op |-> "none", after_err |-> FALSE, dgram |-> << >>, amt |-> 0,
           samples |-> << >>, sent |-> FALSE, queue |-> << >>, pre |-> << >>, got |-> << >>,
           post |-> << >>]

Alive == main_pc # "exited"

\* buffer after recv_from stored the first w bytes of datagram d
Store(buf, d, w) ==
    [i \in 1..(IF w > Len(buf) THEN w ELSE Len(buf)) |->
        IF i <= w THEN d[i] ELSE buf[i]]

\* &buffer[..]: everything the buffer holds, not only the bytes just received
SliceAll(buf, amt) == buf

\* &buffer[..amt]
Slice(buf, amt) == SubSeq(buf, 1, amt)

InitState ==
    /\ main_pc = "start"
    /\ exit_cause = "none"
    /\ nb_channels = 0
    /\ stream_built = FALSE
    /\ transmitter_chan = << >>
    /\ sender_pc = "unspawned"
    /\ sender_buffer = << >>
    /\ captured = << >>
    /\ enqueued = << >>
    /\ dequeued = << >>
    /\ send_calls = << >>
    /\ queued_at_spawn = 0
    /\ receiver_chan = << >>
    /\ rx_alive = TRUE
    /\ receiver_pc = "unspawned"
    /\ buffer = << >>
    /\ pushed = << >>
    /\ polled = << >>
    /\ playback_ran = FALSE
    /\ last = NoStep

Init ==
    /\ command \in {"transmitter", "receiver"}
    /\ traffic = "short"
    /\ InitState

\* the receiver under traffic that includes over-long datagrams
InitLong ==
    /\ command = "receiver"
    /\ traffic = "long"
    /\ InitState

\* ------------------------------------------------------- main thread
Running == main_pc \notin {"unwinding", "exited"}

\* a setup step fails: `?` / unwrap / expect leave the function; the locals
\* (stream with its callback, channel ends) are dropped before the process
\* is gone, the spawned receiver thread keeps running until then
SetupFail(step) ==
    /\ main_pc = step
    /\ main_pc' = "unwinding"
    /\ exit_cause' = step
    /\ stream_built' = FALSE
    /\ rx_alive' = IF command = "receiver" THEN FALSE ELSE rx_alive
    /\ UNCHANGED << command, traffic, tvars, receiver_chan, receiver_pc, buffer,
                    pushed, polled, playback_ran, last >>

\* device lookup: .expect("Failed to find ... device")
FindDeviceFail ==
    /\ SetupFail("start")

ProcessExit ==
    /\ main_pc = "unwinding"
    /\ main_pc' = "exited"
    /\ UNCHANGED << command, traffic, exit_cause, stream_built, tvars, rvars >>

\* transmitter: device found, default_input_config, config.channels()
TransmitterConfig ==
    /\ command = "transmitter"
    /\ main_pc = "start"
    /\ \E ch \in ChannelCounts : nb_channels' = ch
    /\ main_pc' = "build_stream"
    /\ UNCHANGED << command, traffic, exit_cause, stream_built, transmitter_chan,
                    sender_pc, sender_buffer, captured, enqueued, dequeued,
                    send_calls, queued_at_spawn, rvars >>

BuildInputStream ==
    /\ command = "transmitter"
    /\ main_pc = "build_stream"
    /\ stream_built' = TRUE
    /\ main_pc' = "play"
    /\ UNCHANGED << command, traffic, exit_cause, tvars, rvars >>

BuildInputStreamFail ==
    /\ command = "transmitter"
    /\ SetupFail("build_stream")

InputStreamPlay ==
    /\ command = "transmitter"
    /\ main_pc = "play"
    /\ main_pc' = "bind"
    /\ UNCHANGED << command, traffic, exit_cause, stream_built, tvars, rvars >>

InputStreamPlayFail ==
    /\ command = "transmitter"
    /\ SetupFail("play")

TransmitterBind ==
    /\ command = "transmitter"
    /\ main_pc = "bind"
    /\ main_pc' = "connect"
    /\ UNCHANGED << command, traffic, exit_cause, stream_built, tvars, rvars >>

TransmitterBindFail ==
    /\ command = "transmitter"
    /\ SetupFail("bind")

TransmitterConnect ==
    /\ command = "transmitter"
    /\ main_pc = "connect"
    /\ main_pc' = "spawn"
    /\ UNCHANGED << command, traffic, exit_cause, stream_built, tvars, rvars >>

TransmitterConnectFail ==
    /\ command = "transmitter"
    /\ SetupFail("connect")

\* a sender thread that starts on an emptied channel
SpawnSenderFresh ==
    /\ command = "transmitter"
    /\ main_pc = "spawn"
    /\ sender_pc' = "recv"
    /\ main_pc' = "running"
    /\ queued_at_spawn' = Len(transmitter_chan)
    /\ transmitter_chan' = << >>
    /\ UNCHANGED << command, traffic, exit_cause, stream_built, nb_channels,
                    sender_buffer, captured, enqueued, dequeued, send_calls,
                    rvars >>

SpawnSender ==
    /\ command = "transmitter"
    /\ main_pc = "spawn"
    /\ sender_pc' = "recv"
    /\ main_pc' = "running"
    /\ queued_at_spawn' = Len(transmitter_chan)
    /\ UNCHANGED << command, traffic, exit_cause, stream_built, nb_channels,
                    transmitter_chan, sender_buffer, captured, enqueued,
                    dequeued, send_calls, rvars >>

\* ------------------------------------------------- transmitter pipeline
\* input_data_fn
CaptureCallback ==
    /\ command = "transmitter"
    /\ Running
    /\ stream_built
    /\ Len(captured) < MaxCaptures
    /\ SendReturns(transmitter_chan)
    /\ \E data \in CaptureBuffers(nb_channels) :
         LET msg == Normalize(nb_channels, data)
         IN  /\ captured' = Append(captured, data)
             /\ transmitter_chan' = ChanSend(transmitter_chan, msg)
             /\ enqueued' = Append(enqueued, msg)
    /\ UNCHANGED << mvars, nb_channels, sender_pc, sender_buffer, dequeued,
                    send_calls, queued_at_spawn, rvars >>

\* sender thread: if let Ok(buffer) = rx.recv()
SenderRecv ==
    /\ Alive
    /\ sender_pc = "recv"
    /\ transmitter_chan # << >>
    /\ sender_buffer' = ChanFront(transmitter_chan)
    /\ transmitter_chan' = ChanRest(transmitter_chan)
    /\ dequeued' = Append(dequeued, ChanFront(transmitter_chan))
    /\ sender_pc' = "send"
    /\ UNCHANGED << mvars, nb_channels, captured, enqueued, send_calls,
                    queued_at_spawn, rvars >>

\* a sender that keeps the buffer and sends it again when socket.send fails
SenderSendRetry ==
    /\ Alive
    /\ sender_pc = "send"
    /\ \E ok \in BOOLEAN :
         /\ send_calls' = Append(send_calls,
                                 [packet |-> Encode(sender_buffer), ok |-> ok])
         /\ sender_buffer' = IF ok THEN << >> ELSE sender_buffer
         /\ sender_pc' = IF ok THEN "recv" ELSE "send"
    /\ UNCHANGED << mvars, nb_channels, transmitter_chan, captured, enqueued,
                    dequeued, queued_at_spawn >>
    /\ UNCHANGED rvars

\* sender thread: packet = encode(buffer); let _ = socket.send(&packet)
SenderSend ==
    /\ Alive
    /\ sender_pc = "send"
    /\ \E ok \in BOOLEAN :
         send_calls' = Append(send_calls,
                              [packet |-> Encode(sender_buffer), ok |-> ok])
    /\ sender_buffer' = << >>
    /\ sender_pc' = "recv"
    /\ UNCHANGED << mvars, nb_channels, transmitter_chan, captured, enqueued,
                    dequeued, queued_at_spawn, rvars >>

\* ------------------------------------------------------- receiver setup
ReceiverStart ==
    /\ command = "receiver"
    /\ main_pc = "start"
    /\ main_pc' = "bind"
    /\ UNCHANGED << command, traffic, exit_cause, stream_built, tvars, rvars >>

ReceiverBind ==
    /\ command = "receiver"
    /\ main_pc = "bind"
    /\ main_pc' = "spawn"
    /\ UNCHANGED << command, traffic, exit_cause, stream_built, tvars, rvars >>

ReceiverBindFail ==
    /\ command = "receiver"
    /\ SetupFail("bind")

SpawnReceiver ==
    /\ command = "receiver"
    /\ main_pc = "spawn"
    /\ receiver_pc' = "loop"
    /\ main_pc' = "build_stream"
    /\ UNCHANGED << command, traffic, exit_cause, stream_built, tvars, receiver_chan,
                    rx_alive, buffer, pushed, polled, playback_ran, last >>

BuildOutputStream ==
    /\ command = "receiver"
    /\ main_pc = "build_stream"
    /\ stream_built' = TRUE
    /\ main_pc' = "play"
    /\ UNCHANGED << command, traffic, exit_cause, tvars, rvars >>

BuildOutputStreamFail ==
    /\ command = "receiver"
    /\ SetupFail("build_stream")

OutputStreamPlay ==
    /\ command = "receiver"
    /\ main_pc = "play"
    /\ main_pc' = "running"
    /\ UNCHANGED << command, traffic, exit_cause, stream_built, tvars, rvars >>

OutputStreamPlayFail ==
    /\ command = "receiver"
    /\ SetupFail("play")

\* ---------------------------------------------------- receiver pipeline
\* receiver thread, Ok((amt, _)) = socket.recv_from(&mut buffer)
ReceiverRecv ==
    /\ Alive
    /\ receiver_pc = "loop"
    /\ Len(pushed) < MaxDatagrams
    /\ \E d \in Datagrams(traffic) :
         LET amt == RecvAmt(Len(d))
             stored == Store(buffer, d, amt)
             samples == Decode(Slice(stored, amt))
         IN  /\ buffer' = stored
             /\ last' = [NoStep EXCEPT !.op = "recv",
                                       !.after_err = (last.op = "recv_err"),
                                       !.dgram = d,
                                       !.amt = amt, !.samples = samples,
                                       !.sent = rx_alive,
                                       !.queue = receiver_chan]
             /\ IF rx_alive
                THEN /\ receiver_chan' = ChanSend(receiver_chan, samples)
                     /\ pushed' = Append(pushed, samples)
                ELSE UNCHANGED << receiver_chan, pushed >>
    /\ UNCHANGED << mvars, tvars, rx_alive, receiver_pc, polled,
                    playback_ran >>

\* a receiver that ignores the Err and decodes what the buffer holds
ReceiverRecvErrPush ==
    /\ Alive
    /\ receiver_pc = "loop"
    /\ Len(pushed) < MaxDatagrams
    /\ last' = [NoStep EXCEPT !.op = "recv_err", !.queue = receiver_chan]
    /\ receiver_chan' = ChanSend(receiver_chan, Decode(buffer))
    /\ pushed' = Append(pushed, Decode(buffer))
    /\ UNCHANGED << mvars, tvars, rx_alive, receiver_pc, buffer, polled,
                    playback_ran >>

\* receiver thread, recv_from returned Err: nothing is decoded or sent
ReceiverRecvErr ==
    /\ Alive
    /\ receiver_pc = "loop"
    /\ last' = [NoStep EXCEPT !.op = "recv_err", !.queue = receiver_chan]
    /\ UNCHANGED << mvars, tvars, receiver_chan, rx_alive, receiver_pc,
                    buffer, pushed, polled, playback_ran >>

\* output_data_fn
PlaybackCallback ==
    /\ command = "receiver"
    /\ Running
    /\ stream_built
    /\ \E data \in OutputBuffers :
         LET got == TryRecv(receiver_chan)
         IN  /\ last' = [NoStep EXCEPT !.op = "playback",
                                       !.queue = receiver_chan,
                                       !.pre = data, !.got = got,
                                       !.post = Fill(data, got)]
             /\ receiver_chan' = IF got # << >> THEN ChanRest(receiver_chan)
                                 ELSE receiver_chan
             /\ polled' = polled \o got
    /\ playback_ran' = TRUE
    /\ UNCHANGED << mvars, tvars, rx_alive, receiver_pc, buffer, pushed >>

Next ==
    \/ FindDeviceFail
    \/ ProcessExit
    \/ TransmitterConfig
    \/ BuildInputStream
    \/ BuildInputStreamFail
    \/ InputStreamPlay
    \/ InputStreamPlayFail
    \/ TransmitterBind
    \/ TransmitterBindFail
    \/ TransmitterConnect
    \/ TransmitterConnectFail
    \/ SpawnSender
    \/ CaptureCallback
    \/ SenderRecv
    \/ SenderSend
    \/ ReceiverStart
    \/ ReceiverBind
    \/ ReceiverBindFail
    \/ SpawnReceiver
    \/ BuildOutputStream
    \/ BuildOutputStreamFail
    \/ OutputStreamPlay
    \/ OutputStreamPlayFail
    \/ ReceiverRecv
    \/ ReceiverRecvErr
    \/ PlaybackCallback

Spec == Init /\ [][Next]_vars

NextLong ==
    \/ FindDeviceFail
    \/ ProcessExit
    \/ ReceiverStart
    \/ ReceiverBind
    \/ ReceiverBindFail
    \/ SpawnReceiver
    \/ BuildOutputStream
    \/ BuildOutputStreamFail
    \/ OutputStreamPlay
    \/ OutputStreamPlayFail
    \/ ReceiverRecv
    \/ ReceiverRecvErr
    \/ PlaybackCallback

SpecLong == InitLong /\ [][NextLong]_vars

\* the transmitter with a sender thread that is scheduled whenever it can
\* take a step: rx.recv() returns once a buffer is queued, socket.send returns
InitLive ==
    /\ command = "transmitter"
    /\ traffic = "short"
    /\ InitState

NextLive ==
    \/ FindDeviceFail
    \/ ProcessExit
    \/ TransmitterConfig
    \/ BuildInputStream
    \/ BuildInputStreamFail
    \/ InputStreamPlay
    \/ InputStreamPlayFail
    \/ TransmitterBind
    \/ TransmitterBindFail
    \/ TransmitterConnect
    \/ TransmitterConnectFail
    \/ SpawnSender
    \/ CaptureCallback
    \/ SenderRecv
    \/ SenderSend

SpecLive ==
    /\ InitLive
    /\ [][NextLive]_vars
    /\ WF_vars(SenderRecv)
    /\ WF_vars(SenderSend)

TypeOK ==
    /\ command \in {"transmitter", "receiver"}
    /\ sender_pc \in {"unspawned", "recv", "send"}
    /\ receiver_pc \in {"unspawned", "loop"}
    /\ Len(buffer) <= RecvBufLen

\* ------------------------------------------------------------ properties
\* the four bytes of a sample as they must appear on the wire, written out
WireBytes(s) == << s.lo % 256, s.lo \div 256, s.hi % 256, s.hi \div 256 >>

\* the sample four wire bytes stand for, written out
WireSample(d, i) ==
    F32(d[4 * i - 1] + 256 * d[4 * i], d[4 * i - 3] + 256 * d[4 * i - 2])

\* C1: with a mono device, every capture callback puts on the outbound
\* channel a buffer twice as long as the captured one, in which samples
\* 2i-1 and 2i (1-based) both equal captured sample i.
C1_MonoDuplicated ==
    nb_channels = 1 =>
        /\ Len(enqueued) = Len(captured)
        /\ \A k \in 1..Len(captured) :
              /\ Len(enqueued[k]) = 2 * Len(captured[k])
              /\ \A i \in 1..Len(captured[k]) :
                    /\ enqueued[k][2 * i - 1] = captured[k][i]
                    /\ enqueued[k][2 * i] = captured[k][i]

C1_Witness ==
    /\ nb_channels = 1
    /\ \E k \in 1..Len(enqueued) :
          /\ Len(captured[k]) = 2
          /\ captured[k][1] # captured[k][2]

\* C2: a datagram that is the sender's encoding of a buffer is decoded by the
\* receiver to that same buffer; a mono capture of [0.5] is sent as the bytes
\* 00 00 00 3F 00 00 00 3F, and those bytes are decoded as [0.5, 0.5].
HalfPairBytes == << 0, 0, 0, 63, 0, 0, 0, 63 >>

C2_RoundTrip ==
    /\ \A k \in 1..Len(send_calls) :
          (nb_channels = 1 /\ captured[k] = << Half >>) =>
              send_calls[k].packet = HalfPairBytes
    /\ last.op = "recv" =>
          /\ \A b \in WireBuffers :
                last.dgram = Encode(b) => last.samples = b
          /\ last.dgram = HalfPairBytes => last.samples = << Half, Half >>

C2_Witness ==
    /\ last.op = "recv"
    /\ last.dgram = Encode(Ramp(2))
    /\ last.samples = Ramp(2)

\* C3: a received datagram whose length L is not a multiple of 4 is decoded
\* to exactly L div 4 samples, sample i built from bytes 4i-3..4i; the last
\* L mod 4 bytes give no sample.
C3_Truncation ==
    (last.op = "recv" /\ Len(last.dgram) % 4 # 0 /\ Len(last.dgram) <= RecvBufLen) =>
        /\ Len(last.samples) = Len(last.dgram) \div 4
        /\ \A i \in 1..Len(last.samples) :
              last.samples[i] = WireSample(last.dgram, i)

C3_Witness ==
    /\ last.op = "recv"
    /\ Len(last.dgram) % 4 = 3
    /\ Len(last.samples) = 2

\* C4: after a playback callback that found the inbound channel empty, every
\* position of the output buffer is 0.0, whatever it held before.
C4_Underrun ==
    (last.op = "playback" /\ last.queue = << >>) =>
        /\ Len(last.post) = Len(last.pre)
        /\ \A i \in 1..Len(last.post) : last.post[i] = Zero

C4_Witness ==
    /\ last.op = "playback"
    /\ last.queue = << >>
    /\ Len(last.pre) = MaxOut
    /\ \A i \in 1..Len(last.pre) : last.pre[i] # Zero

\* C5: on both channels the buffers taken out so far, followed by the
\* buffers still queued, are exactly the buffers put in, in the order they
\* were put in.
C5_Fifo ==
    /\ enqueued = dequeued \o transmitter_chan
    /\ pushed = polled \o receiver_chan

C5_Witness ==
    /\ last.op = "playback"
    /\ Len(last.queue) = 2
    /\ last.queue[1] # last.queue[2]
    /\ polled = << last.queue[1] >>

\* C6: a received datagram of 4098 bytes is decoded to exactly 1024 samples,
\* sample i built from its bytes 4i-3..4i, and these are sent as one buffer on
\* the inbound channel; bytes 4097 and 4098 give no sample.
C6_Oversized ==
    (last.op = "recv" /\ Len(last.dgram) = 4098) =>
        /\ last.amt = 4096
        /\ Len(last.samples) = 1024
        /\ \A i \in 1..1024 : last.samples[i] = WireSample(last.dgram, i)
        /\ last.sent =>
              /\ receiver_chan = Append(last.queue, last.samples)
              /\ pushed[Len(pushed)] = last.samples

C6_Witness ==
    /\ last.op = "recv"
    /\ Len(last.dgram) = 4098
    /\ last.sent
    /\ Len(receiver_chan) = 1

\* C7: every buffer sent on the outbound channel is stereo: it holds two
\* samples for every captured frame, whatever the device channel count.
C7_AlwaysStereo ==
    \A k \in 1..Len(enqueued) :
        Len(enqueued[k]) * nb_channels = 2 * Len(captured[k])

\* C8 as stated: a playback callback that finds buffers queued copies the
\* one that arrived last.
C8_Newest ==
    (last.op = "playback" /\ last.queue # << >>) =>
        /\ last.got = << last.queue[Len(last.queue)] >>
        /\ \A i \in 1..Min(Len(last.pre), Len(last.queue[Len(last.queue)])) :
              last.post[i] = last.queue[Len(last.queue)][i]

\* C8 amended: a playback callback that finds buffers queued takes and copies
\* the one that arrived first, leaving the others queued; it writes silence
\* only when none is queued.
C8_Oldest ==
    last.op = "playback" =>
        IF last.queue # << >>
        THEN /\ last.got = << Head(last.queue) >>
             /\ receiver_chan = Tail(last.queue)
             /\ Len(last.post) = Len(last.pre)
             /\ \A i \in 1..Len(last.post) :
                   last.post[i] = IF i <= Len(Head(last.queue))
                                  THEN Head(last.queue)[i] ELSE last.pre[i]
        ELSE /\ last.got = << >>
             /\ \A i \in 1..Len(last.post) : last.post[i] = Zero

C8_Witness ==
    /\ last.op = "playback"
    /\ Len(last.queue) = 2
    /\ Len(last.queue[1]) >= 1
    /\ Len(last.queue[2]) >= 1
    /\ last.queue[1][1] # last.queue[2][1]
    /\ Len(last.pre) >= 1

\* C9: when socket bind / connect or opening the stream fails, no capture
\* callback has sent a buffer, no sender or receiver thread has started its
\* loop and no playback callback has run.
C9_FailBeforePipeline ==
    exit_cause \in {"bind", "connect", "build_stream"} =>
        /\ enqueued = << >>
        /\ sender_pc = "unspawned"
        /\ receiver_pc = "unspawned"
        /\ ~playback_ran

\* C10: the sender thread calls socket.send once for each buffer it took
\* from the outbound channel, in order; the packet of a buffer of n samples
\* has 4n bytes and bytes 4i-3..4i are the encoding of sample i.
C10_OneDatagramPerBuffer ==
    /\ Len(send_calls) + (IF sender_pc = "send" THEN 1 ELSE 0) = Len(dequeued)
    /\ \A k \in 1..Len(send_calls) :
          /\ Len(send_calls[k].packet) = 4 * Len(dequeued[k])
          /\ \A i \in 1..Len(dequeued[k]) :
                SubSeq(send_calls[k].packet, 4 * i - 3, 4 * i)
                    = WireBytes(dequeued[k][i])

C10_Witness ==
    /\ Len(send_calls) = 2
    /\ Len(send_calls[1].packet) >= 8
    /\ send_calls[1].packet # send_calls[2].packet
    /\ sender_pc = "recv"
\* C11: a step in which socket.send fails leaves the sender thread back at
\* rx.recv() without the buffer (no retry, no stop), and leaves the outbound
\* channel and the buffers taken from it as they were; the failed call
\* carried the encoding of the buffer the thread held.
C11_SendErrorSwallowed ==
    [][(/\ Len(send_calls') = Len(send_calls) + 1
        /\ ~send_calls'[Len(send_calls')].ok)
       => (/\ send_calls'[Len(send_calls')].packet = Encode(sender_buffer)
           /\ SubSeq(send_calls', 1, Len(send_calls)) = send_calls
           /\ sender_pc' = "recv"
           /\ sender_buffer' = << >>
           /\ transmitter_chan' = transmitter_chan
           /\ dequeued' = dequeued
           /\ enqueued' = enqueued)]_vars

C11_Witness ==
    /\ Len(send_calls) = 2
    /\ ~send_calls[1].ok
    /\ send_calls[2].ok
    /\ send_calls[1].packet = Encode(enqueued[1])
    /\ send_calls[2].packet = Encode(enqueued[2])
    /\ enqueued[1] # enqueued[2]
\* C12: a loop iteration in which recv_from fails sends nothing on the
\* inbound channel and leaves the channel, the reception buffer and the
\* thread's loop as they were; a successful receive after a failure is
\* decoded from its own bytes and, the channel being open, queued behind
\* what was queued.
C12_RecvErrorSwallowed ==
    /\ [][(last'.op = "recv_err" /\ last' # last)
           => (/\ receiver_chan' = receiver_chan
               /\ pushed' = pushed
               /\ polled' = polled
               /\ buffer' = buffer
               /\ receiver_pc' = "loop")]_vars
    /\ [](( last.op = "recv" /\ last.after_err) =>
            /\ Len(last.samples) = last.amt \div 4
            /\ \A i \in 1..Len(last.samples) :
                  last.samples[i] = WireSample(last.dgram, i)
            /\ last.sent => receiver_chan = Append(last.queue, last.samples))

C12_Witness ==
    /\ last.op = "recv"
    /\ last.after_err
    /\ last.sent
    /\ Len(last.samples) = 2
    /\ Len(last.queue) = 1
\* C13: after a playback callback that took a buffer of m samples for an
\* output buffer of n samples, output positions 1..min(m,n) hold the buffer's
\* samples in order, positions m+1..n hold what they held before the
\* callback, and the buffer (with its samples n+1..m) is gone: it is neither
\* queued again nor held for a later period.
C13_PartialCopy ==
    (last.op = "playback" /\ last.got # << >>) =>
        LET m == Len(last.got[1])
            n == Len(last.pre)
        IN  /\ Len(last.post) = n
            /\ \A i \in 1..Min(m, n) : last.post[i] = last.got[1][i]
            /\ \A i \in (m + 1)..n : last.post[i] = last.pre[i]
            /\ last.queue = << last.got[1] >> \o receiver_chan
            /\ polled[Len(polled)] = last.got[1]
            /\ pushed = polled \o receiver_chan

C13_Witness ==
    /\ last.op = "playback"
    /\ last.got # << >>
    /\ Len(last.got[1]) = 1
    /\ Len(last.pre) = 3
    /\ last.post[2] # Zero
\* C14: a playback callback takes exactly one buffer from the inbound
\* channel when one is queued and none otherwise, however many are queued.
C14_OnePerPeriod ==
    [][(last'.op = "playback" /\ last' # last)
       => (IF receiver_chan # << >>
           THEN /\ Len(receiver_chan') = Len(receiver_chan) - 1
                /\ Len(polled') = Len(polled) + 1
           ELSE /\ receiver_chan' = receiver_chan
                /\ polled' = polled)]_vars

C14_Witness ==
    /\ last.op = "playback"
    /\ Len(last.queue) = 2
    /\ Len(receiver_chan) = 1
    /\ Len(polled) = 1
\* C15: the inbound channel has no depth cap: a successful receive while the
\* channel is open always lengthens the queue by the decoded buffer, whatever
\* its depth, and the receiver can take its next datagram whatever the depth
\* (the number of datagrams per run is the only limit, and it is the
\* model's); with no playback callback in between the queue holds every
\* datagram received.
C15_NoDepthCap ==
    /\ [][(last'.op = "recv" /\ last' # last /\ rx_alive)
           => receiver_chan' = Append(receiver_chan, last'.samples)]_vars
    /\ []((Alive /\ receiver_pc = "loop" /\ Len(pushed) < MaxDatagrams)
            => ENABLED ReceiverRecv)
    /\ [](polled = << >> => Len(receiver_chan) = Len(pushed))

C15_Witness ==
    /\ Len(receiver_chan) = MaxDatagrams
    /\ stream_built
    /\ main_pc = "running"
    /\ last.op = "recv"
    /\ Len(last.queue) = MaxDatagrams - 1
C17_PairCapacity ==
    (last.op = "recv" /\ Len(last.dgram) >= RecvBufLen) =>
        Len(last.samples) = 2 * 1024

\* C17 amended: the reception buffer holds 4096 bytes = 1024 samples = 512
\* stereo pairs: no receive stores more than 4096 bytes or gives more than
\* 1024 samples, and a datagram that fills the buffer gives exactly 1024
\* samples (512 left/right pairs).
C17_SampleCapacity ==
    /\ Len(buffer) <= 4096
    /\ last.op = "recv" =>
          /\ last.amt <= 4096
          /\ Len(last.samples) <= 1024
          /\ Len(last.dgram) >= 4096 => Len(last.samples) = 2 * 512

C17_Witness ==
    /\ last.op = "recv"
    /\ Len(last.dgram) >= RecvBufLen
    /\ Len(last.samples) = 1024
    /\ last.sent
    /\ receiver_chan # << >>
    /\ receiver_chan[Len(receiver_chan)] = last.samples
\* C18: the buffer decoded for a datagram of amt stored bytes is made of
\* those amt bytes only: amt div 4 samples, sample i from the datagram's bytes
\* 4i-3..4i, also when the reception buffer still holds bytes of an earlier,
\* longer datagram behind them.
C18_NoStaleData ==
    last.op = "recv" =>
        /\ Len(last.samples) = last.amt \div 4
        /\ \A i \in 1..(last.amt \div 4) :
              last.samples[i] = WireSample(last.dgram, i)
        /\ last.sent => pushed[Len(pushed)] = last.samples

C18_Witness ==
    /\ last.op = "recv"
    /\ last.sent
    /\ last.amt >= 4
    /\ Len(buffer) >= last.amt + 4
    /\ buffer[last.amt + 1] # 0
\* C19: once setup has succeeded, every buffer a capture callback has sent on
\* the outbound channel is eventually passed to socket.send, the k-th
\* buffer by the k-th call, also when it was queued before the sender
\* thread was spawned; and at no time has a buffer been passed twice or out
\* of order.
C19_EventuallySent ==
    /\ \A k \in 1..MaxCaptures :
          (main_pc = "running" /\ Len(enqueued) >= k)
            ~> (/\ Len(send_calls) >= k
                /\ send_calls[k].packet = Encode(enqueued[k]))
    /\ [](/\ Len(send_calls) <= Len(enqueued)
           /\ \A k \in 1..Len(send_calls) :
                 send_calls[k].packet = Encode(enqueued[k]))

C19_Witness ==
    /\ main_pc = "running"
    /\ queued_at_spawn >= 2
    /\ enqueued[1] # enqueued[2]
    /\ Len(send_calls) = Len(enqueued)
    /\ \A k \in 1..Len(send_calls) :
          send_calls[k].packet = Encode(enqueued[k])
====
